---- MODULE Spec2Model ----
(***************************************************************************)
(* Model of the Azure Pricing MCP server (azure_pricing_mcp_server.py):    *)
(* the four tools list_service_families, get_products, get_service_names   *)
(* and get_monthly_cost, each run against a nondeterministic upstream      *)
(* pricing API.  A tool call is split at its requests.get calls: one       *)
(* action runs the code up to the request, the next one runs the code from *)
(* the response to the following request or to the return.                 *)
(*                                                                         *)
(* Python strings are sequences of chunks; the strings whose characters    *)
(* the code inspects (lower(), "in", sort order, int()) are sequences of   *)
(* one-character chunks.                                                   *)
(***************************************************************************)
EXTENDS Integers, Sequences, FiniteSets, TLC

(* ------------------------------------------------------------------ *)
(* Bounds of the model                                                 *)
(* ------------------------------------------------------------------ *)

\* most records the upstream hands out over the pages of one call
MaxItems == 3

\* largest integer a caller passes as limit or monthly_hours
MaxArg == 2

(* ------------------------------------------------------------------ *)
(* Python values                                                       *)
(* ------------------------------------------------------------------ *)

None == [tag |-> "None"]

\* a key the JSON object does not have
Absent == [tag |-> "absent"]

PyStr(s) == [tag |-> "str", v |-> s]

PyInt(n) == [tag |-> "int", v |-> n]

\* code points of the characters the model's strings are made of
CodePoint(c) ==
    CASE c = " " -> 32
      [] c = "-" -> 45
      [] c = "/" -> 47
      [] c = "0" -> 48
      [] c = "1" -> 49
      [] c = "2" -> 50
      [] c = "3" -> 51
      [] c = "4" -> 52
      [] c = "5" -> 53
      [] c = "6" -> 54
      [] c = "7" -> 55
      [] c = "8" -> 56
      [] c = "9" -> 57
      [] c = "A" -> 65
      [] c = "B" -> 66
      [] c = "C" -> 67
      [] c = "H" -> 72
      [] c = "M" -> 77
      [] c = "S" -> 83
      [] c = "a" -> 97
      [] c = "b" -> 98
      [] c = "c" -> 99
      [] c = "e" -> 101
      [] c = "g" -> 103
      [] c = "h" -> 104
      [] c = "m" -> 109
      [] c = "n" -> 110
      [] c = "o" -> 111
      [] c = "p" -> 112
      [] c = "r" -> 114
      [] c = "s" -> 115
      [] c = "t" -> 116
      [] c = "u" -> 117
      [] c = "x" -> 120

\* str.lower() on one character
LowerChar(c) ==
    CASE c = "A" -> "a"
      [] c = "B" -> "b"
      [] c = "C" -> "c"
      [] c = "H" -> "h"
      [] c = "M" -> "m"
      [] c = "S" -> "s"
      [] OTHER -> c

\* str.lower()
lower(s) == [i \in 1..Len(s) |-> LowerChar(s[i])]

\* Python's "sub in s" on strings
str_in(sub, s) ==
    \E i \in 0..(Len(s) - Len(sub)) :
        \A j \in 1..Len(sub) : s[i + j] = sub[j]

\* Python's "a < b" on strings: lexicographic by code point
RECURSIVE str_lt(_, _)
str_lt(a, b) ==
    IF b = <<>> THEN FALSE
    ELSE IF a = <<>> THEN TRUE
    ELSE IF CodePoint(Head(a)) < CodePoint(Head(b)) THEN TRUE
    ELSE IF CodePoint(Head(a)) > CodePoint(Head(b)) THEN FALSE
    ELSE str_lt(Tail(a), Tail(b))

\* dict.get(key, default) on a JSON object
dict_get(item, key, default) ==
    IF item[key].tag = "absent" THEN default ELSE item[key]

\* truth value of a Python value: None and "" are false
truthy(v) ==
    CASE v.tag = "None" -> FALSE
      [] v.tag = "absent" -> FALSE
      [] v.tag = "str" -> v.v # <<>>
      [] v.tag = "int" -> v.v # 0

Digits == {"0", "1", "2", "3", "4", "5", "6", "7", "8", "9"}

RECURSIVE digits_value(_)
digits_value(s) ==
    IF s = <<>> THEN 0
    ELSE 10 * digits_value(SubSeq(s, 1, Len(s) - 1)) + (CodePoint(s[Len(s)]) - 48)

\* int(v): an int is kept, a decimal string (with an optional sign) is parsed,
\* anything else raises ValueError
can_int(v) ==
    \/ v.tag = "int"
    \/ /\ v.tag = "str"
       /\ LET d == IF v.v # <<>> /\ v.v[1] = "-" THEN Tail(v.v) ELSE v.v
          IN  d # <<>> /\ \A i \in 1..Len(d) : d[i] \in Digits

int(v) ==
    IF v.tag = "int" THEN v.v
    ELSE IF v.v[1] = "-" THEN 0 - digits_value(Tail(v.v))
    ELSE digits_value(v.v)

\* the sequences over S of length at most n
SeqsUpTo(S, n) == UNION {[1..k -> S] : k \in 0..n}

RECURSIVE sorted_strs(_)
\* list(set(...)) followed by list.sort(): the members of S in ascending order
sorted_strs(S) ==
    IF S = {} THEN <<>>
    ELSE LET m == CHOOSE x \in S : \A y \in S \ {x} : str_lt(x, y)
         IN  <<m>> \o sorted_strs(S \ {m})

(* ------------------------------------------------------------------ *)
(* The upstream pricing API                                            *)
(* ------------------------------------------------------------------ *)

\* one catalog record of the upstream's JSON
PriceRecord(productName, serviceName, skuName, unitOfMeasure, retailPrice, currencyCode) ==
    [productName |-> productName, serviceName |-> serviceName,
     skuName |-> skuName, meterName |-> skuName,
     unitOfMeasure |-> unitOfMeasure, retailPrice |-> retailPrice,
     currencyCode |-> currencyCode]

Hour1 == PyStr(<<"1", " ", "H", "o", "u", "r">>)

\* records answering a query by service family: their productName and
\* serviceName range over null, "", "a" and "Ab", never equal in one record
FamilyItems ==
    { PriceRecord(None, PyStr(<<"a">>), PyStr(<<"s">>), Hour1, PyInt(1), PyStr(<<"USD">>)),
      PriceRecord(PyStr(<<>>), PyStr(<<"A", "b">>), PyStr(<<"s">>), Hour1, PyInt(1), PyStr(<<"USD">>)),
      PriceRecord(PyStr(<<"a">>), None, PyStr(<<"s">>), Hour1, PyInt(1), PyStr(<<"USD">>)),
      PriceRecord(PyStr(<<"A", "b">>), PyStr(<<>>), PyStr(<<"s">>), Hour1, PyInt(1), PyStr(<<"USD">>)) }

\* records answering a query by product name: hourly, monthly, lower-case
\* "hour" and unit-less meters
ProductItems ==
    { PriceRecord(PyStr(<<"a">>), PyStr(<<"a">>), PyStr(<<"s", "1">>), Hour1, PyInt(1), PyStr(<<"USD">>)),
      PriceRecord(PyStr(<<"a">>), PyStr(<<"a">>), PyStr(<<"s", "2">>),
                  PyStr(<<"1", "/", "M", "o", "n", "t", "h">>), PyInt(2), PyStr(<<"EUR">>)),
      PriceRecord(PyStr(<<"a">>), PyStr(<<"a">>), PyStr(<<"s", "3">>),
                  PyStr(<<"1", " ", "h", "o", "u", "r">>), PyInt(2), Absent),
      PriceRecord(PyStr(<<"a">>), PyStr(<<"a">>), PyStr(<<"s", "4">>), Absent, PyInt(1), PyStr(<<"USD">>)) }

NextLink == PyStr(<<"https://prices.azure.com/api/retail/prices?$skip=">>)

\* what a requests.get can bring: a RequestException (no connection, or a
\* non-2xx status at raise_for_status), or a JSON body of n records at most
Responses(records, n) ==
    {[kind |-> "error"]} \cup
    {[kind |-> "ok", Items |-> s, NextPageLink |-> l] :
        s \in SeqsUpTo(records, n), l \in {None, NextLink}}

(* ------------------------------------------------------------------ *)
(* State                                                               *)
(* ------------------------------------------------------------------ *)

VARIABLES
    call,     \* the tool call being served: the tool and its arguments as passed
    pc,       \* where the call stands: "idle", waiting for a response, "returned", "raised"
    gp,       \* local variables of get_products while it runs
    sn,       \* local variables of get_service_names while it runs
    mc,       \* local variables of get_monthly_cost while it runs
    log,      \* the requests.get calls of this tool call, each with what it brought
    result    \* what the call handed to its caller: a dict, or an exception

vars == <<call, pc, gp, sn, mc, log, result>>

\* no such function is running
NoFrame == [running |-> FALSE]

NoResult == [kind |-> "none"]

Returned(value) == [kind |-> "return", value |-> value]

Raised(exc) == [kind |-> "raise", exc |-> exc]

\* the number of records received so far in this call
RECURSIVE Received(_)
Received(lg) ==
    IF lg = <<>> THEN 0
    ELSE Received(SubSeq(lg, 1, Len(lg) - 1)) +
         (IF lg[Len(lg)].response.kind = "ok" THEN Len(lg[Len(lg)].response.Items) ELSE 0)

\* the call ends: its caller gets the dict, or the exception
Deliver(outcome) ==
    /\ pc' = IF outcome.kind = "return" THEN "returned" ELSE "raised"
    /\ result' = outcome
    /\ gp' = NoFrame
    /\ sn' = NoFrame
    /\ mc' = NoFrame

(* ------------------------------------------------------------------ *)
(* Arguments the callers pass                                          *)
(* ------------------------------------------------------------------ *)

Compute == <<"C", "o", "m", "p", "u", "t", "e">>

Storage == <<"S", "t", "o", "r", "a", "g", "e">>

Westeurope == <<"westeurope">>

\* limit: integers, a numeric string, a string that is no number
LimitArgs ==
    {PyInt(n) : n \in 0..MaxArg} \cup {PyStr(<<"2">>), PyStr(<<"x">>)}

\* monthly_hours: the same, and a negative number
HoursArgs ==
    {PyInt(n) : n \in (0 - 1)..MaxArg} \cup {PyStr(<<"2">>), PyStr(<<"x">>)}

\* service_family, region, max_results of a get_service_names call
ServiceQueries ==
    { [service_family |-> Compute, region |-> r, max_results |-> m] :
        r \in {Westeurope, <<>>},
        m \in {PyInt(500), PyInt(1001), PyStr(<<"2">>), PyStr(<<"x">>)} }
    \cup
    { [service_family |-> Storage, region |-> r, max_results |-> m] :
        r \in {Westeurope}, m \in {PyInt(500), PyStr(<<"x">>)} }

\* product_name_contains
ContainsArgs == {<<>>, <<"a">>, <<"B">>}

\* service_family, region, type, service_name of a get_products call
ProductQueries ==
    { [service_family |-> Storage, region |-> Westeurope, type |-> <<>>, service_name |-> <<>>],
      [service_family |-> Compute, region |-> <<>>, type |-> <<"Consumption">>,
       service_name |-> <<"Virtual Machines">>] }

(* ------------------------------------------------------------------ *)
(* get_products                                                        *)
(* ------------------------------------------------------------------ *)

max_pages == 3

\* the $filter of get_products
products_filter(service_family, region, type, service_name) ==
    <<"serviceFamily eq '">> \o service_family \o <<"'">>
    \o (IF region # <<>> THEN <<" and armRegionName eq '">> \o region \o <<"'">> ELSE <<>>)
    \o (IF type # <<>> THEN <<" and type eq '">> \o type \o <<"'">> ELSE <<>>)
    \o (IF service_name # <<>> THEN <<" and serviceName eq '">> \o service_name \o <<"'">> ELSE <<>>)

\* the dict returned when the request raised a RequestException
products_error ==
    [error |-> <<"Error connecting to API: ", "str(e)">>, status |-> "error"]

\* the dict returned when the first page has no records
products_empty(f) ==
    [product_names |-> <<>>,
     count |-> 0,
     total_products |-> 0,
     total_products_processed |-> 0,
     was_limited |-> FALSE,
     limit_applied |-> IF f.limit > 0 THEN PyInt(f.limit) ELSE None,
     status |-> "success",
     message |-> <<"No products found for family '">> \o f.service_family
                 \o <<"' with the applied filters.">>,
     filter_applied |-> f.filter_params,
     product_name_filter |->
         IF f.product_name_contains # <<>> THEN PyStr(f.product_name_contains) ELSE None]

\* the filter without the two lower() calls: the case has to match
filter_items_case_sensitive(all_items, product_name_contains) ==
    SelectSeq(all_items,
              LAMBDA item : str_in(product_name_contains,
                                   dict_get(item, "productName", PyStr(<<>>)).v))

\* the items whose productName contains the text, whatever the case
filter_items(all_items, product_name_contains) ==
    SelectSeq(all_items,
              LAMBDA item : str_in(lower(product_name_contains),
                                   lower(dict_get(item, "productName", PyStr(<<>>)).v)))

\* the extraction testing "is not None" for truth: "" is kept as a name
extract_product_names_keep_empty(all_items) ==
    sorted_strs({ dict_get(all_items[i], "productName", PyStr(<<>>)).v :
                    i \in { j \in 1..Len(all_items) :
                              dict_get(all_items[j], "productName", None).tag = "str" } })

\* the unique non-empty product names of the items, sorted
extract_product_names(all_items) ==
    sorted_strs({ dict_get(all_items[i], "productName", PyStr(<<>>)).v :
                    i \in { j \in 1..Len(all_items) :
                              truthy(dict_get(all_items[j], "productName", None)) } })

\* the slice one too long
limit_names_one_more(product_names, limit) ==
    IF limit > 0 /\ Len(product_names) > limit
    THEN SubSeq(product_names, 1, limit + 1)
    ELSE product_names

\* the first limit names when limit > 0 and there are more
limit_names(product_names, limit) ==
    IF limit > 0 /\ Len(product_names) > limit
    THEN SubSeq(product_names, 1, limit)
    ELSE product_names

was_limited(product_names, limit) == limit > 0 /\ Len(product_names) > limit

\* get_products from the end of the pagination loop to its return
project_products(f) ==
    IF /\ f.product_name_contains # <<>>
       /\ \E i \in 1..Len(f.all_items) :
              dict_get(f.all_items[i], "productName", PyStr(<<>>)).tag = "None"
    THEN Raised("AttributeError")
    ELSE
    LET all_items == IF f.product_name_contains # <<>>
                     THEN filter_items(f.all_items, f.product_name_contains)
                     ELSE f.all_items
        product_names == extract_product_names(all_items)
        limited_product_names == limit_names(product_names, f.limit)
    IN  Returned(
        [product_names |-> limited_product_names,
         count |-> Len(limited_product_names),
         total_products |-> Len(product_names),
         total_products_processed |-> Len(all_items),
         was_limited |-> was_limited(product_names, f.limit),
         limit_applied |-> IF f.limit > 0 THEN PyInt(f.limit) ELSE None,
         status |-> "success",
         filter_applied |-> f.filter_params,
         product_name_filter |->
             IF f.product_name_contains # <<>> THEN PyStr(f.product_name_contains) ELSE None])

\* the loop test with "<=" for "<": one page more
more_pages_inclusive(f) == truthy(f.next_page_link) /\ f.page_count <= max_pages

\* the pagination loop goes on
more_pages(f) == truthy(f.next_page_link) /\ f.page_count < max_pages

(* ------------------------------------------------------------------ *)
(* list_service_families                                               *)
(* ------------------------------------------------------------------ *)

official_service_families ==
    << <<"Analytics">>, <<"Azure Arc">>, <<"Azure Communication Services">>,
       <<"Azure Security">>, <<"Azure Stack">>, <<"Compute">>, <<"Containers">>,
       <<"Data">>, <<"Databases">>, <<"Developer Tools">>, <<"Dynamics">>,
       <<"Gaming">>, <<"Integration">>, <<"Internet of Things">>,
       <<"Management and Governance">>, <<"Microsoft Syntex">>, <<"Mixed Reality">>,
       <<"Networking">>, <<"Other">>, <<"Power Platform">>, <<"Quantum Computing">>,
       <<"Security">>, <<"Storage">>, <<"Telecommunications">>, <<"Web">>,
       <<"Windows Virtual Desktop">> >>

service_families_result ==
    [service_families |-> official_service_families,
     count |-> Len(official_service_families),
     source |-> <<"official_documentation">>,
     reference |-> <<"https://learn.microsoft.com/en-us/rest/api/cost-management/retail-prices/azure-retail-prices#supported-servicefamily-values">>]

(* ------------------------------------------------------------------ *)
(* get_service_names                                                   *)
(* ------------------------------------------------------------------ *)

\* $top without the cap of 1000
uncapped(a, b) == a

min(a, b) == IF a < b THEN a ELSE b

\* the $filter of get_service_names
service_names_filter(service_family, region) ==
    <<"serviceFamily eq '">> \o service_family \o <<"'">>
    \o (IF region # <<>> THEN <<" and armRegionName eq '">> \o region \o <<"'">> ELSE <<>>)

\* the unique non-empty service names of the items, sorted
extract_service_names(items) ==
    sorted_strs({ dict_get(items[i], "serviceName", PyStr(<<>>)).v :
                    i \in { j \in 1..Len(items) :
                              truthy(dict_get(items[j], "serviceName", None)) } })

no_products_message(f) ==
    <<"No products found for family '">> \o f.service_family
    \o <<"' in region '">> \o f.region \o <<"'.">>

\* the Compute branch, from the response to the return
compute_service_names(f, response) ==
    IF response.kind = "error"
    THEN [error |-> <<"Error connecting to API: ", "str(e)">>, status |-> "error"]
    ELSE IF Len(response.Items) = 0
    THEN [service_family |-> f.service_family,
          service_names |-> <<>>,
          count |-> 0,
          is_complete |-> TRUE,
          status |-> "success",
          message |-> no_products_message(f),
          filter_applied |-> f.filter_params]
    ELSE [service_family |-> f.service_family,
          service_names |-> extract_service_names(response.Items),
          count |-> Len(extract_service_names(response.Items)),
          is_complete |-> FALSE,
          region |-> f.region,
          note |-> <<"Optimized results for Compute family, limited to ",
                     Len(response.Items), " products">>]

\* the dict returned when get_products found nothing, or failed
no_service_names(f, products_result) ==
    [service_family |-> f.service_family,
     service_names |-> <<>>,
     count |-> 0,
     is_complete |-> TRUE,
     status |-> "success",
     message |-> IF "message" \in DOMAIN products_result
                 THEN products_result.message
                 ELSE no_products_message(f),
     filter_applied |-> IF "filter_applied" \in DOMAIN products_result
                        THEN products_result.filter_applied
                        ELSE <<>>]

\* get_products came back empty-handed
products_unusable(products_result) ==
    \/ products_result.status = "error"
    \/ (IF "count" \in DOMAIN products_result THEN products_result.count ELSE 0) = 0

\* the other families' branch, from the response of the second query to the return
sample_service_names(f, response) ==
    IF response.kind = "error"
    THEN [service_family |-> f.service_family,
          service_names |-> <<>>,
          count |-> 0,
          is_complete |-> TRUE,
          status |-> "error",
          message |-> <<"Error getting service names: ", "str(e)">>]
    ELSE [service_family |-> f.service_family,
          service_names |-> extract_service_names(response.Items),
          count |-> Len(extract_service_names(response.Items)),
          is_complete |-> IF "NextPageLink" \in DOMAIN f.products_result
                          THEN f.products_result.NextPageLink = None
                          ELSE TRUE,
          region |-> f.region,
          processed_items |-> Len(response.Items)]

\* get_products has ended inside get_service_names
service_names_resume(outcome) ==
    IF outcome.kind = "raise"
    THEN Deliver(Returned([error |-> <<"Error getting service names: ", "str(e)">>,
                           status |-> "error"]))
    ELSE IF products_unusable(outcome.value)
    THEN Deliver(Returned(no_service_names(sn, outcome.value)))
    ELSE /\ pc' = "sn_sample"
         /\ sn' = [sn EXCEPT !.products_result = outcome.value]
         /\ gp' = NoFrame
         /\ UNCHANGED <<mc, result>>

(* ------------------------------------------------------------------ *)
(* get_monthly_cost                                                    *)
(* ------------------------------------------------------------------ *)

Hour == <<"H", "o", "u", "r">>

\* the $filter of get_monthly_cost
monthly_cost_filter(product_name, region, type) ==
    <<"productName eq '">> \o product_name \o <<"'">>
    \o <<" and armRegionName eq '">> \o region \o <<"'">>
    \o (IF type # <<>> THEN <<" and type eq '">> \o type \o <<"'">> ELSE <<>>)

\* the unit test made case-insensitive: "1 hour" counts as hourly too
monthly_cost_any_case(retail_price, unit_of_measure, monthly_hours) ==
    IF str_in(lower(Hour), lower(unit_of_measure))
    THEN retail_price * monthly_hours
    ELSE retail_price

\* the monthly cost of one record
monthly_cost(retail_price, unit_of_measure, monthly_hours) ==
    IF str_in(Hour, unit_of_measure) THEN retail_price * monthly_hours ELSE retail_price

\* the line item of one record
product_cost(item, monthly_hours) ==
    [sku_name |-> dict_get(item, "skuName", PyStr(<<>>)).v,
     meter_name |-> dict_get(item, "meterName", PyStr(<<>>)).v,
     retail_price |-> dict_get(item, "retailPrice", PyInt(0)).v,
     unit_of_measure |-> dict_get(item, "unitOfMeasure", PyStr(<<>>)).v,
     monthly_cost |-> monthly_cost(dict_get(item, "retailPrice", PyInt(0)).v,
                                   dict_get(item, "unitOfMeasure", PyStr(<<>>)).v,
                                   monthly_hours),
     currency |-> dict_get(item, "currencyCode", PyStr(<<"USD">>)).v]

\* an insertion that puts x in front of the line items of equal cost
RECURSIVE insert_before_equal_cost(_, _)
insert_before_equal_cost(sorted, x) ==
    IF sorted = <<>> THEN <<x>>
    ELSE IF Head(sorted).monthly_cost > x.monthly_cost
    THEN <<Head(sorted)>> \o insert_before_equal_cost(Tail(sorted), x)
    ELSE <<x>> \o sorted

\* x goes behind every line item that costs as much or more
RECURSIVE insert_by_cost(_, _)
insert_by_cost(sorted, x) ==
    IF sorted = <<>> THEN <<x>>
    ELSE IF Head(sorted).monthly_cost >= x.monthly_cost
    THEN <<Head(sorted)>> \o insert_by_cost(Tail(sorted), x)
    ELSE <<x>> \o sorted

\* list.sort(key=monthly_cost, reverse=True): descending, equal costs keep their order
RECURSIVE sort_by_cost(_)
sort_by_cost(products_costs) ==
    IF products_costs = <<>> THEN <<>>
    ELSE insert_by_cost(sort_by_cost(SubSeq(products_costs, 1, Len(products_costs) - 1)),
                        products_costs[Len(products_costs)])

\* a total of the unit prices instead of the monthly costs
RECURSIVE sum_retail_prices(_)
sum_retail_prices(products_costs) ==
    IF products_costs = <<>> THEN 0
    ELSE products_costs[1].retail_price + sum_retail_prices(Tail(products_costs))

\* total_monthly_cost += monthly_cost, item by item
RECURSIVE sum_costs(_)
sum_costs(products_costs) ==
    IF products_costs = <<>> THEN 0
    ELSE products_costs[1].monthly_cost + sum_costs(Tail(products_costs))

\* the zero-record answer given the shape of the empty get_products answer
product_not_found_as_success(f) ==
    [product_name |-> f.product_name,
     region |-> f.region,
     status |-> "success",
     message |-> <<"No products found with the specified filters">>,
     filter_applied |-> f.filter_params]

\* the answer to a response without records
product_not_found(f) ==
    [product_name |-> f.product_name,
     region |-> f.region,
     status |-> "error",
     message |-> <<"Product '">> \o f.product_name \o <<"' not found in region '">>
                 \o f.region \o <<"'.">>,
     filter_applied |-> f.filter_params]

\* get_monthly_cost from the response to the return
monthly_cost_result(f, response) ==
    IF response.kind = "error"
    THEN [product_name |-> f.product_name,
          region |-> f.region,
          status |-> "error",
          error |-> <<"Error connecting to API: ", "str(e)">>]
    ELSE IF Len(response.Items) = 0
    THEN product_not_found(f)
    ELSE LET products_costs ==
                 [i \in 1..Len(response.Items) |->
                     product_cost(response.Items[i], f.monthly_hours)]
         IN  [product_name |-> f.product_name,
              region |-> f.region,
              monthly_hours |-> f.monthly_hours,
              products |-> sort_by_cost(products_costs),
              total_monthly_cost |-> sum_costs(products_costs),
              currency |-> dict_get(response.Items[1], "currencyCode", PyStr(<<"USD">>)).v,
              count |-> Len(products_costs),
              status |-> "success"]

(* ------------------------------------------------------------------ *)
(* Actions                                                             *)
(* ------------------------------------------------------------------ *)

\* a behaviour is one tool call: calls share no state, each starts from here
Ready == pc = "idle"

Request(url, filter, top) == [url |-> url, filter |-> filter, top |-> top]

AZURE_PRICE_API == <<"https://prices.azure.com/api/retail/prices">>

\* get_products starts: its locals up to the first requests.get
products_frame(service_family, region, type, service_name, product_name_contains, limit) ==
    [service_family |-> service_family,
     region |-> region,
     type |-> type,
     service_name |-> service_name,
     product_name_contains |-> product_name_contains,
     limit |-> limit,
     filter_params |-> products_filter(service_family, region, type, service_name),
     all_items |-> <<>>,
     next_page_link |-> None,
     page_count |-> 0]

\* get_products ends: in its caller, the tool's or get_service_names
products_exit(outcome) ==
    IF call.tool = "get_products"
    THEN Deliver(outcome)
    ELSE service_names_resume(outcome)

\* get_products has taken a page in: the loop fetches another, or is left
products_continue(f) ==
    IF more_pages(f)
    THEN /\ pc' = "gp_next"
         /\ gp' = f
         /\ UNCHANGED <<sn, mc, result>>
    ELSE products_exit(project_products(f))

list_service_families ==
    /\ Ready
    /\ call' = [tool |-> "list_service_families", args |-> <<>>]
    /\ log' = <<>>
    /\ Deliver(Returned(service_families_result))

get_products ==
    /\ Ready
    /\ \E q \in ProductQueries, c \in ContainsArgs, l \in LimitArgs :
          /\ call' = [tool |-> "get_products",
                      args |-> [service_family |-> q.service_family, region |-> q.region,
                                type |-> q.type, service_name |-> q.service_name,
                                product_name_contains |-> c, limit |-> l]]
          /\ log' = <<>>
          /\ IF ~can_int(l)
             THEN Deliver(Raised("ValueError"))
             ELSE /\ pc' = "gp_first"
                  /\ gp' = products_frame(q.service_family, q.region, q.type,
                                          q.service_name, c, int(l))
                  /\ sn' = NoFrame
                  /\ mc' = NoFrame
                  /\ result' = NoResult

get_products_first_page ==
    /\ pc = "gp_first"
    /\ \E response \in Responses(FamilyItems, MaxItems) :
          /\ log' = Append(log, [request |-> Request(AZURE_PRICE_API, PyStr(gp.filter_params), None),
                                 response |-> response])
          /\ IF response.kind = "error"
             THEN products_exit(Returned(products_error))
             ELSE IF Len(response.Items) = 0
             THEN products_exit(Returned(products_empty(gp)))
             ELSE products_continue([gp EXCEPT !.all_items = response.Items,
                                               !.next_page_link = response.NextPageLink,
                                               !.page_count = 1])
    /\ UNCHANGED call

get_products_next_page ==
    /\ pc = "gp_next"
    /\ \E response \in Responses(FamilyItems, MaxItems - Received(log)) :
          /\ log' = Append(log, [request |-> Request(gp.next_page_link.v, None, None),
                                 response |-> response])
          /\ IF response.kind = "error"
             THEN products_exit(project_products(gp))
             ELSE products_continue([gp EXCEPT !.all_items = gp.all_items \o response.Items,
                                               !.next_page_link = response.NextPageLink,
                                               !.page_count = gp.page_count + 1])
    /\ UNCHANGED call

get_service_names ==
    /\ Ready
    /\ \E q \in ServiceQueries :
          /\ call' = [tool |-> "get_service_names", args |-> q]
          /\ log' = <<>>
          /\ IF ~can_int(q.max_results)
             THEN Deliver(Raised("ValueError"))
             ELSE /\ sn' = [service_family |-> q.service_family,
                            region |-> q.region,
                            max_results |-> int(q.max_results),
                            filter_params |-> service_names_filter(q.service_family, q.region),
                            products_result |-> None]
                  /\ mc' = NoFrame
                  /\ result' = NoResult
                  /\ IF lower(q.service_family) = <<"c", "o", "m", "p", "u", "t", "e">>
                     THEN /\ pc' = "sn_compute"
                          /\ gp' = NoFrame
                     ELSE /\ pc' = "gp_first"
                          /\ gp' = products_frame(q.service_family, q.region,
                                                  <<>>, <<>>, <<>>, 0)

get_service_names_compute_page ==
    /\ pc = "sn_compute"
    /\ \E response \in Responses(FamilyItems, MaxItems) :
          /\ log' = Append(log, [request |-> Request(AZURE_PRICE_API, PyStr(sn.filter_params),
                                                     PyInt(min(sn.max_results, 1000))),
                                 response |-> response])
          /\ Deliver(Returned(compute_service_names(sn, response)))
    /\ UNCHANGED call

get_service_names_sample_page ==
    /\ pc = "sn_sample"
    /\ \E response \in Responses(FamilyItems, MaxItems - Received(log)) :
          /\ log' = Append(log, [request |-> Request(AZURE_PRICE_API, PyStr(sn.filter_params),
                                                     PyInt(100)),
                                 response |-> response])
          /\ Deliver(Returned(sample_service_names(sn, response)))
    /\ UNCHANGED call

get_monthly_cost ==
    /\ Ready
    /\ \E region \in {Westeurope, <<>>}, type \in {<<"Consumption">>, <<>>}, h \in HoursArgs :
          /\ call' = [tool |-> "get_monthly_cost",
                      args |-> [product_name |-> <<"a">>, region |-> region,
                                monthly_hours |-> h, type |-> type]]
          /\ log' = <<>>
          /\ IF ~can_int(h)
             THEN Deliver(Raised("ValueError"))
             ELSE /\ pc' = "mc_page"
                  /\ mc' = [product_name |-> <<"a">>,
                            region |-> region,
                            type |-> type,
                            monthly_hours |-> int(h),
                            filter_params |-> monthly_cost_filter(<<"a">>, region, type)]
                  /\ gp' = NoFrame
                  /\ sn' = NoFrame
                  /\ result' = NoResult

get_monthly_cost_page ==
    /\ pc = "mc_page"
    /\ \E response \in Responses(ProductItems, MaxItems) :
          /\ log' = Append(log, [request |-> Request(AZURE_PRICE_API, PyStr(mc.filter_params), None),
                                 response |-> response])
          /\ Deliver(Returned(monthly_cost_result(mc, response)))
    /\ UNCHANGED call

Init ==
    /\ call = [tool |-> "none", args |-> <<>>]
    /\ pc = "idle"
    /\ gp = NoFrame
    /\ sn = NoFrame
    /\ mc = NoFrame
    /\ log = <<>>
    /\ result = NoResult

Next ==
    \/ list_service_families
    \/ get_products
    \/ get_products_first_page
    \/ get_products_next_page
    \/ get_service_names
    \/ get_service_names_compute_page
    \/ get_service_names_sample_page
    \/ get_monthly_cost
    \/ get_monthly_cost_page

Spec == Init /\ [][Next]_vars

(* ------------------------------------------------------------------ *)
(* What the claims speak of                                            *)
(* ------------------------------------------------------------------ *)

Done == pc \in {"returned", "raised"}

\* the call returned a dict with this status
ReturnedStatus(status) ==
    /\ pc = "returned"
    /\ "status" \in DOMAIN result.value
    /\ result.value.status = status

\* the records of the pages received, in the order received
RECURSIVE FetchedItems(_)
FetchedItems(lg) ==
    IF lg = <<>> THEN <<>>
    ELSE FetchedItems(SubSeq(lg, 1, Len(lg) - 1)) \o
         (IF lg[Len(lg)].response.kind = "ok" THEN lg[Len(lg)].response.Items ELSE <<>>)

FirstRequestFailed == Len(log) >= 1 /\ log[1].response.kind = "error"

\* the first page came with at least one record
FirstPageHasRecords ==
    Len(log) >= 1 /\ log[1].response.kind = "ok" /\ Len(log[1].response.Items) > 0

\* a continuation request failed
LaterRequestFailed == Len(log) >= 2 /\ log[Len(log)].response.kind = "error"

\* get_products' locals at the end of a pagination that fetched the logged pages
FrameOfLog ==
    [products_frame(call.args.service_family, call.args.region, call.args.type,
                    call.args.service_name, call.args.product_name_contains,
                    int(call.args.limit))
        EXCEPT !.all_items = FetchedItems(log)]

(* C1: a get_products call fetches at most 3 pages, the first request and  *)
(* at most 2 continuation requests, even when every page carries a         *)
(* continuation link; the records it works on are those of the fetched     *)
(* pages, all of them and no others.                                       *)
C1_AtMostThreePages ==
    /\ call.tool = "get_products" => Len(log) <= 3
    /\ pc = "gp_next" =>
          /\ Len(log) < 3
          /\ gp.page_count = Len(log)
          /\ gp.all_items = FetchedItems(log)
    /\ (call.tool = "get_products" /\ Done /\ FirstPageHasRecords) =>
          result = project_products(FrameOfLog)

\* three pages fetched, the third still carrying a continuation link
C1_Witness ==
    /\ call.tool = "get_products"
    /\ pc = "returned"
    /\ Len(log) = 3
    /\ \A i \in 1..3 : log[i].response.kind = "ok" /\ log[i].response.NextPageLink = NextLink
    /\ Len(FetchedItems(log)) = MaxItems
    /\ result.value.total_products_processed = MaxItems

(* C2: when the first upstream request of a get_products, get_service_names *)
(* or get_monthly_cost call fails, the call returns a dict whose status is  *)
(* "error".                                                                 *)
C2_FirstFailureIsError ==
    (Done /\ FirstRequestFailed) => ReturnedStatus("error")

(* C3: when the first page of get_products has records and a continuation  *)
(* request fails, the call returns status "success", built from the        *)
(* records of the pages fetched before the failure.                        *)
C3_PartialResultOnLaterFailure ==
    (call.tool = "get_products" /\ Done /\ FirstPageHasRecords /\ LaterRequestFailed) =>
        /\ ReturnedStatus("success")
        /\ result = project_products(FrameOfLog)

(* C4: no tool lets an exception out to its caller, whatever the arguments *)
(* and whatever the upstream answers.                                      *)
C4_NoExceptionEscapes == pc # "raised"

(* C5: every dict a tool returns has a status field, "success" or "error". *)
C5_StatusOnEveryReturn ==
    pc = "returned" =>
        /\ "status" \in DOMAIN result.value
        /\ result.value.status \in {"success", "error"}

\* a comes before b in the order of Python's strings
Before(a, b) ==
    \E k \in 1..(min(Len(a), Len(b)) + 1) :
        /\ \A j \in 1..(k - 1) : a[j] = b[j]
        /\ IF k <= Len(a) /\ k <= Len(b)
           THEN CodePoint(a[k]) < CodePoint(b[k])
           ELSE k > Len(a) /\ k <= Len(b)

StrictlyAscending(names) ==
    \A i \in 1..(Len(names) - 1) : Before(names[i], names[i + 1])

\* text occurs in name, the case of the letters set aside
ContainsIgnoringCase(name, text) ==
    \E i \in 0..(Len(name) - Len(text)) :
        \A j \in 1..Len(text) : LowerChar(name[i + j]) = LowerChar(text[j])

\* the non-empty product names among the fetched records
FetchedProductNames ==
    { FetchedItems(log)[i].productName.v :
        i \in { j \in 1..Len(FetchedItems(log)) :
                  /\ FetchedItems(log)[j].productName.tag = "str"
                  /\ FetchedItems(log)[j].productName.v # <<>> } }

\* those that pass the product_name_contains filter of the call
MatchingProductNames ==
    { n \in FetchedProductNames :
        \/ call.args.product_name_contains = <<>>
        \/ ContainsIgnoringCase(n, call.args.product_name_contains) }

\* the name list of a returned dict
ReturnedNames ==
    IF "product_names" \in DOMAIN result.value THEN result.value.product_names
    ELSE IF "service_names" \in DOMAIN result.value THEN result.value.service_names
    ELSE <<>>

Range(seq) == {seq[i] : i \in 1..Len(seq)}

\* get_products returned a success dict
ProductsSucceeded == call.tool = "get_products" /\ ReturnedStatus("success")

(* C6: the name list of every get_products and get_service_names result is *)
(* strictly ascending in the order of Python's strings, so without         *)
(* duplicates, and holds no empty name.                                    *)
C6_NamesStrictlyAscending ==
    (pc = "returned" /\ call.tool \in {"get_products", "get_service_names"}) =>
        /\ StrictlyAscending(ReturnedNames)
        /\ \A i \in 1..Len(ReturnedNames) : ReturnedNames[i] # <<>>

\* two names returned where the upstream sent them the other way round, with
\* a duplicate, an empty or a null name among the records
C6_Witness ==
    /\ ProductsSucceeded
    /\ Len(ReturnedNames) = 2
    /\ Len(FetchedItems(log)) > 2
    /\ FetchedItems(log)[1].productName = PyStr(ReturnedNames[2])

(* C7: with limit > 0 and more unique matching names than limit,           *)
(* get_products returns the first limit names of the sorted unique list,   *)
(* was_limited true and total_products the number of unique names; with    *)
(* limit 0 or no more names than limit it returns them all and was_limited *)
(* false.                                                                  *)
C7_LimitTruncates ==
    ProductsSucceeded =>
        LET limit == int(call.args.limit)
            U == Cardinality(MatchingProductNames)
            names == result.value.product_names
        IN  /\ (limit > 0 /\ U > limit) =>
                  /\ Len(names) = limit
                  /\ StrictlyAscending(names)
                  /\ Range(names) \subseteq MatchingProductNames
                  /\ \A m \in MatchingProductNames \ Range(names) :
                        \A i \in 1..Len(names) : Before(names[i], m)
                  /\ result.value.was_limited = TRUE
                  /\ result.value.total_products = U
                  /\ result.value.count = limit
            /\ (limit = 0 \/ U <= limit) =>
                  /\ Len(names) = U
                  /\ Range(names) = MatchingProductNames
                  /\ result.value.was_limited = FALSE
                  /\ result.value.total_products = U
                  /\ result.value.count = U

\* two unique names under limit 1
C7_Witness ==
    /\ ProductsSucceeded
    /\ int(call.args.limit) = 1
    /\ Cardinality(MatchingProductNames) = 2
    /\ result.value.was_limited = TRUE
    /\ result.value.product_names = << <<"A", "b">> >>

(* C8: with a non-empty product_name_contains, the names of get_products   *)
(* before limiting are the unique non-empty productName values of the      *)
(* fetched records that contain the text, case set aside; every returned   *)
(* name contains it.                                                       *)
C8_ContainsFilter ==
    (ProductsSucceeded /\ call.args.product_name_contains # <<>>) =>
        /\ \A i \in 1..Len(result.value.product_names) :
              /\ ContainsIgnoringCase(result.value.product_names[i],
                                      call.args.product_name_contains)
              /\ result.value.product_names[i] \in FetchedProductNames
        /\ result.value.total_products =
              Cardinality({ n \in FetchedProductNames :
                              ContainsIgnoringCase(n, call.args.product_name_contains) })
        /\ result.value.was_limited = FALSE =>
              Range(result.value.product_names) =
                  { n \in FetchedProductNames :
                      ContainsIgnoringCase(n, call.args.product_name_contains) }

\* "B" finds "Ab" and leaves "a" out
C8_Witness ==
    /\ ProductsSucceeded
    /\ call.args.product_name_contains = <<"B">>
    /\ result.value.product_names = << <<"A", "b">> >>
    /\ <<"a">> \in FetchedProductNames

\* no record is left at some stage of get_products
NoRecordRemains ==
    /\ Len(log) >= 1
    /\ log[1].response.kind = "ok"
    /\ MatchingProductNames = {}

(* C9: when no record remains at some stage of get_products (an empty      *)
(* first page, a filter no record passes, no non-empty productName), the   *)
(* result is status "success" with count 0, an empty name list and a       *)
(* message.                                                                *)
C9_EmptyIsSuccessWithMessage ==
    (call.tool = "get_products" /\ Done /\ NoRecordRemains) =>
        /\ ReturnedStatus("success")
        /\ result.value.count = 0
        /\ result.value.product_names = <<>>
        /\ "message" \in DOMAIN result.value

\* the unit of measure has "Hour" in it
HasHour(unit_of_measure) ==
    \E k \in 1..(Len(unit_of_measure) - 3) :
        /\ unit_of_measure[k] = "H"
        /\ unit_of_measure[k + 1] = "o"
        /\ unit_of_measure[k + 2] = "u"
        /\ unit_of_measure[k + 3] = "r"

\* what the claim prices a record at
ExpectedCost(item, hours) ==
    IF item.unitOfMeasure.tag = "str" /\ HasHour(item.unitOfMeasure.v)
    THEN item.retailPrice.v * hours
    ELSE item.retailPrice.v

\* get_monthly_cost returned its line items
CostsReturned ==
    /\ call.tool = "get_monthly_cost"
    /\ pc = "returned"
    /\ "products" \in DOMAIN result.value

(* C10: every line item of get_monthly_cost has monthly_cost equal to      *)
(* retail_price * monthly_hours when the record's unitOfMeasure contains   *)
(* "Hour", and to retail_price otherwise, a missing unitOfMeasure          *)
(* included.                                                               *)
C10_MonthlyCostPerItem ==
    CostsReturned =>
        LET hours == int(call.args.monthly_hours)
            items == log[1].response.Items
            products == result.value.products
        IN  /\ Len(products) = Len(items)
            /\ \A i \in 1..Len(products) :
                  /\ products[i].monthly_cost =
                        IF HasHour(products[i].unit_of_measure)
                        THEN products[i].retail_price * hours
                        ELSE products[i].retail_price
                  /\ \E j \in 1..Len(items) :
                        /\ items[j].skuName.v = products[i].sku_name
                        /\ items[j].retailPrice.v = products[i].retail_price
                        /\ products[i].monthly_cost = ExpectedCost(items[j], hours)
            /\ \A j \in 1..Len(items) :
                  \E i \in 1..Len(products) :
                      /\ items[j].skuName.v = products[i].sku_name
                      /\ products[i].monthly_cost = ExpectedCost(items[j], hours)

\* an hourly meter, a "1 hour" meter and a meter without unit, at 2 hours
C10_Witness ==
    /\ CostsReturned
    /\ int(call.args.monthly_hours) = 2
    /\ \E i, j, k \in 1..Len(result.value.products) :
          /\ result.value.products[i].unit_of_measure = Hour1.v
          /\ result.value.products[i].monthly_cost = 2 * result.value.products[i].retail_price
          /\ result.value.products[j].unit_of_measure = <<"1", " ", "h", "o", "u", "r">>
          /\ result.value.products[j].monthly_cost = result.value.products[j].retail_price
          /\ result.value.products[k].unit_of_measure = <<>>
          /\ result.value.products[k].monthly_cost = result.value.products[k].retail_price

\* the sum of the monthly_cost of the line items of a returned list
RECURSIVE SumOfLineItems(_)
SumOfLineItems(products) ==
    IF Len(products) = 0 THEN 0
    ELSE SumOfLineItems(SubSeq(products, 1, Len(products) - 1))
         + products[Len(products)].monthly_cost

(* C11: in every successful get_monthly_cost result, total_monthly_cost   *)
(* is the sum of the monthly_cost of the line items of the returned       *)
(* products list, and count is the number of records of the first page.   *)
C11_TotalIsSumOfItems ==
    CostsReturned =>
        /\ result.value.total_monthly_cost = SumOfLineItems(result.value.products)
        /\ result.value.count = Len(log[1].response.Items)

\* three records of which one is hourly, at 2 hours: the total is above the prices' sum
C11_Witness ==
    /\ CostsReturned
    /\ int(call.args.monthly_hours) = 2
    /\ result.value.count = 3
    /\ \E i \in 1..3 : result.value.products[i].monthly_cost
                          # result.value.products[i].retail_price
    /\ result.value.total_monthly_cost = SumOfLineItems(result.value.products)

\* the line item a record becomes, as far as the claims tell records apart
IsLineItemOf(product, item, hours) ==
    /\ product.sku_name = item.skuName.v
    /\ product.retail_price = item.retailPrice.v
    /\ product.monthly_cost = ExpectedCost(item, hours)

\* the bijections from the places of the result to the places of the response
Rearrangements(n) ==
    {p \in [1..n -> 1..n] : \A i, j \in 1..n : i # j => p[i] # p[j]}

(* C12: in every successful get_monthly_cost result the line items are a  *)
(* permutation of the upstream records, ordered by monthly_cost           *)
(* non-increasing, and line items of equal monthly_cost keep the relative *)
(* order their records have in the response.                              *)
C12_StableDescendingSort ==
    CostsReturned =>
        LET hours == int(call.args.monthly_hours)
            items == log[1].response.Items
            products == result.value.products
        IN  /\ Len(products) = Len(items)
            /\ \A i \in 1..Len(products) - 1 :
                  products[i].monthly_cost >= products[i + 1].monthly_cost
            /\ \E p \in Rearrangements(Len(items)) :
                  /\ \A i \in 1..Len(products) :
                        IsLineItemOf(products[i], items[p[i]], hours)
                  /\ \A i, j \in 1..Len(products) :
                        (i < j /\ products[i].monthly_cost = products[j].monthly_cost)
                            => p[i] < p[j]

\* the cheapest record came first, then two different records of one cost
C12_Witness ==
    /\ CostsReturned
    /\ Len(log[1].response.Items) = 3
    /\ LET items == log[1].response.Items
           products == result.value.products
       IN  /\ products[3].sku_name = items[1].skuName.v
           /\ products[1].sku_name = items[2].skuName.v
           /\ products[2].sku_name = items[3].skuName.v
           /\ products[1].sku_name # products[2].sku_name
           /\ products[1].monthly_cost = products[2].monthly_cost
           /\ products[2].monthly_cost > products[3].monthly_cost

\* get_monthly_cost got a response without records
NoProductRecord ==
    /\ call.tool = "get_monthly_cost"
    /\ Done
    /\ Len(log) = 1
    /\ log[1].response.kind = "ok"
    /\ log[1].response.Items = <<>>

(* C13: when the request of get_monthly_cost succeeds with zero records,  *)
(* the call raises nothing and returns status "error", a message that     *)
(* contains the product name and the region, and a filter_applied equal   *)
(* to the filter expression that was sent.                                *)
C13_NotFoundIsError ==
    NoProductRecord =>
        /\ ReturnedStatus("error")
        /\ "message" \in DOMAIN result.value
        /\ str_in(call.args.product_name, result.value.message)
        /\ str_in(call.args.region, result.value.message)
        /\ "filter_applied" \in DOMAIN result.value
        /\ log[1].request.filter = PyStr(result.value.filter_applied)

\* the not-found answer to a request that carried a type clause
C13_Witness ==
    /\ NoProductRecord
    /\ ReturnedStatus("error")
    /\ call.args.type # <<>>
    /\ log[1].request.filter = PyStr(result.value.filter_applied)
    /\ str_in(call.args.type, result.value.filter_applied)

\* a get_service_names call for the Compute family
ComputeCall ==
    /\ call.tool = "get_service_names"
    /\ lower(call.args.service_family) = lower(Compute)

\* the $top the claim gives the Compute request
CappedTop(max_results) == IF max_results <= 1000 THEN max_results ELSE 1000

\* the returned dict is not an error
NonErrorResult ==
    /\ pc = "returned"
    /\ ~ReturnedStatus("error")

(* C14 as stated, of the calls that return: get_service_names with        *)
(* family "Compute" issues exactly one upstream request, carrying         *)
(* $top = min(max_results, 1000), follows no continuation link, and every *)
(* non-error result, the one with zero records included, has              *)
(* is_complete = false.                                                   *)
C14_EveryComputeResultIncomplete ==
    (ComputeCall /\ pc = "returned") =>
        /\ Len(log) = 1
        /\ log[1].request.url = AZURE_PRICE_API
        /\ log[1].request.top = PyInt(CappedTop(int(call.args.max_results)))
        /\ NonErrorResult => result.value.is_complete = FALSE

(* C14: get_service_names with family "Compute" issues at most one        *)
(* upstream request, and exactly one whenever it returns a result; the    *)
(* request carries $top = min(max_results, 1000) and no continuation link *)
(* is followed; a non-error result with at least one record has           *)
(* is_complete = false, the non-error result with zero records has        *)
(* is_complete = true.                                                    *)
C14_ComputeSample ==
    ComputeCall =>
        /\ Len(log) <= 1
        /\ \A i \in 1..Len(log) :
              /\ log[i].request.url = AZURE_PRICE_API
              /\ log[i].request.top = PyInt(CappedTop(int(call.args.max_results)))
        /\ pc = "returned" => Len(log) = 1
        /\ NonErrorResult =>
              result.value.is_complete = (Len(log[1].response.Items) = 0)

\* max_results above the cap, a page with records and a continuation link left alone
C14_Witness ==
    /\ ComputeCall
    /\ NonErrorResult
    /\ int(call.args.max_results) = 1001
    /\ Len(log) = 1
    /\ log[1].request.top = PyInt(1000)
    /\ log[1].response.NextPageLink = NextLink
    /\ Len(log[1].response.Items) = 2
    /\ result.value.is_complete = FALSE

\* a get_service_names call for a family other than Compute
OtherFamilyCall ==
    /\ call.tool = "get_service_names"
    /\ lower(call.args.service_family) # lower(Compute)

\* the requests of the paginator: the ones that carry no $top
PaginatorPages == SelectSeq(log, LAMBDA e : e.request.top = None)

\* the unique non-empty serviceName values of the records
ServiceNamesOf(items) ==
    { items[i].serviceName.v :
        i \in { j \in 1..Len(items) : items[j].serviceName.tag = "str"
                                        /\ items[j].serviceName.v # <<>> } }

\* the last page the paginator received came with a continuation link
LinkRemained ==
    \E i \in 1..Len(PaginatorPages) :
        /\ PaginatorPages[i].response.kind = "ok"
        /\ \A j \in (i + 1)..Len(PaginatorPages) : PaginatorPages[j].response.kind = "error"
        /\ PaginatorPages[i].response.NextPageLink = NextLink

(* C15: get_service_names with a family other than "Compute" returns the  *)
(* unique serviceName values of all the records the paginator fetched,    *)
(* and is_complete is true exactly when no continuation link remained     *)
(* after the last page the paginator fetched.                             *)
C15_NamesOfPaginatedRecords ==
    (OtherFamilyCall /\ pc = "returned" /\ "service_names" \in DOMAIN result.value) =>
        /\ Range(result.value.service_names) = ServiceNamesOf(FetchedItems(PaginatorPages))
        /\ result.value.is_complete = ~LinkRemained

\* the inputs a call has for the clauses, in the order the clauses take
FilterInputs ==
    IF call.tool = "get_monthly_cost"
    THEN << [field |-> "productName", value |-> call.args.product_name],
            [field |-> "armRegionName", value |-> call.args.region],
            [field |-> "type", value |-> call.args.type] >>
    ELSE IF call.tool = "get_products"
    THEN << [field |-> "serviceFamily", value |-> call.args.service_family],
            [field |-> "armRegionName", value |-> call.args.region],
            [field |-> "type", value |-> call.args.type],
            [field |-> "serviceName", value |-> call.args.service_name] >>
    ELSE << [field |-> "serviceFamily", value |-> call.args.service_family],
            [field |-> "armRegionName", value |-> call.args.region] >>

\* the text up to the value of a clause, at the head of the expression or behind " and "
ClauseHead(field, leading) ==
    CASE field = "serviceFamily" /\ leading -> "serviceFamily eq '"
      [] field = "productName" /\ leading -> "productName eq '"
      [] field = "armRegionName" /\ ~leading -> " and armRegionName eq '"
      [] field = "type" /\ ~leading -> " and type eq '"
      [] field = "serviceName" /\ ~leading -> " and serviceName eq '"

\* the leading clause, then a clause for every other input that is not empty
RECURSIVE JoinedClauses(_, _)
JoinedClauses(inputs, leading) ==
    IF inputs = <<>> THEN <<>>
    ELSE (IF leading \/ Head(inputs).value # <<>>
          THEN <<ClauseHead(Head(inputs).field, leading)>> \o Head(inputs).value \o <<"'">>
          ELSE <<>>)
         \o JoinedClauses(Tail(inputs), FALSE)

(* C16: the filter expression of every request of get_products,           *)
(* get_service_names and get_monthly_cost is the clauses                  *)
(* <field> eq '<value>' joined by " and ": the leading clause             *)
(* (serviceFamily, or productName for get_monthly_cost) always, and the   *)
(* armRegionName, type and serviceName clauses exactly when the input is  *)
(* a non-empty string.                                                    *)
C16_ClausesOfNonEmptyInputs ==
    \A i \in 1..Len(log) :
        log[i].request.filter # None =>
            log[i].request.filter = PyStr(JoinedClauses(FilterInputs, TRUE))

\* the most requests the claim allows the call
RequestBound ==
    CASE call.tool = "list_service_families" -> 0
      [] call.tool = "get_monthly_cost" -> 1
      [] call.tool = "get_products" -> 3
      [] ComputeCall -> 1
      [] OtherFamilyCall -> 4
      [] OTHER -> 0

\* the calls the claim gives an exact number of requests
ExactlyBound == call.tool \in {"list_service_families", "get_monthly_cost"} \/ ComputeCall

\* a request that follows a continuation link: it carries neither $filter nor $top
IsContinuation(i) == log[i].request.filter = None /\ log[i].request.top = None

(* C17: every call ends by returning a result, no call in progress is     *)
(* ever without a next step, and the requests it issued are bounded: 0    *)
(* for list_service_families, exactly 1 for get_monthly_cost and for      *)
(* get_service_names on "Compute", at most 3 for get_products and at most *)
(* 4 for get_service_names on another family; a continuation request is   *)
(* issued only after the page before it was received with a non-empty     *)
(* continuation link.                                                     *)
C17_ReturnsAfterBoundedRequests ==
    /\ (pc # "idle" /\ ~Done) => ENABLED Next
    /\ Len(log) <= RequestBound
    /\ \A i \in 1..Len(log) :
          IsContinuation(i) =>
              /\ i > 1
              /\ log[i - 1].response.kind = "ok"
              /\ truthy(log[i - 1].response.NextPageLink)
              /\ log[i].request.url = log[i - 1].response.NextPageLink.v
    /\ Done =>
          /\ pc = "returned"
          /\ ExactlyBound => Len(log) = RequestBound

(* ------------------------------------------------------------------ *)
(* Two calls at once                                                   *)
(*                                                                     *)
(* The server runs each tool call as a plain function call: what a     *)
(* call works on are the locals of get_products and get_monthly_cost,  *)
(* and the module has no state a call writes. Here call, pc, gp, mc,   *)
(* log and result hold one value per call, and the steps of the two    *)
(* calls, each up to its next requests.get, interleave in any order.   *)
(* ------------------------------------------------------------------ *)

\* the records both calls receive, together
ConcItems == 2

Calls == {1, 2}

\* the records of the upstream in these runs
ConcFamilyItems == {r \in FamilyItems : truthy(r.productName)}

ConcProductItems == {r \in ProductItems : r.currencyCode.tag = "str"}

\* limit of get_products, monthly_hours of get_monthly_cost
ConcLimits == {PyInt(0), PyInt(1)}

ConcHours == {PyInt(1), PyInt(2)}

\* locals kept in the module instead: every call works on the same ones
shared_frame(c) == 1

\* the locals a call works on: its own
frame_slot(c) == c

\* the records the two calls have received
ReceivedByAll == Received(log[1]) + Received(log[2])

\* the requests the two calls have issued
IssuedByAll == Len(log[1]) + Len(log[2])

\* call c ends
conc_return(c, outcome) ==
    /\ pc' = [pc EXCEPT ![c] = IF outcome.kind = "return" THEN "returned" ELSE "raised"]
    /\ result' = [result EXCEPT ![c] = outcome]

\* call c has issued a request and got its response
conc_requested(c, request, response) ==
    log' = [log EXCEPT ![c] = Append(log[c], [request |-> request, response |-> response,
                                              order |-> IssuedByAll + 1])]

\* get_products of call c has taken a page in
conc_products_continue(c, f) ==
    /\ gp' = [gp EXCEPT ![frame_slot(c)] = f]
    /\ IF more_pages(f)
       THEN /\ pc' = [pc EXCEPT ![c] = "gp_next"]
            /\ UNCHANGED result
       ELSE conc_return(c, project_products(f))

conc_get_products(c) ==
    /\ pc[c] = "idle"
    /\ \E l \in ConcLimits :
          /\ call' = [call EXCEPT ![c] =
                          [tool |-> "get_products",
                           args |-> [service_family |-> Storage, region |-> Westeurope,
                                     type |-> <<>>, service_name |-> <<>>,
                                     product_name_contains |-> <<>>, limit |-> l]]]
          /\ gp' = [gp EXCEPT ![frame_slot(c)] =
                        products_frame(Storage, Westeurope, <<>>, <<>>, <<>>, int(l))]
    /\ pc' = [pc EXCEPT ![c] = "gp_first"]
    /\ UNCHANGED <<sn, mc, log, result>>

conc_products_first_page(c) ==
    /\ pc[c] = "gp_first"
    /\ LET f == gp[frame_slot(c)]
       IN  \E response \in Responses(ConcFamilyItems, ConcItems - ReceivedByAll) :
              /\ conc_requested(c, Request(AZURE_PRICE_API, PyStr(f.filter_params), None),
                                response)
              /\ IF response.kind = "error"
                 THEN /\ conc_return(c, Returned(products_error))
                      /\ UNCHANGED gp
                 ELSE IF Len(response.Items) = 0
                 THEN /\ conc_return(c, Returned(products_empty(f)))
                      /\ UNCHANGED gp
                 ELSE conc_products_continue(c, [f EXCEPT !.all_items = response.Items,
                                                         !.next_page_link = response.NextPageLink,
                                                         !.page_count = 1])
    /\ UNCHANGED <<call, sn, mc>>

conc_products_next_page(c) ==
    /\ pc[c] = "gp_next"
    /\ more_pages(gp[frame_slot(c)])
    /\ LET f == gp[frame_slot(c)]
       IN  \E response \in Responses(ConcFamilyItems, ConcItems - ReceivedByAll) :
              /\ conc_requested(c, Request(f.next_page_link.v, None, None), response)
              /\ IF response.kind = "error"
                 THEN /\ conc_return(c, project_products(f))
                      /\ UNCHANGED gp
                 ELSE conc_products_continue(c, [f EXCEPT
                                                   !.all_items = f.all_items \o response.Items,
                                                   !.next_page_link = response.NextPageLink,
                                                   !.page_count = f.page_count + 1])
    /\ UNCHANGED <<call, sn, mc>>

conc_get_monthly_cost(c) ==
    /\ pc[c] = "idle"
    /\ \E h \in ConcHours :
          /\ call' = [call EXCEPT ![c] =
                          [tool |-> "get_monthly_cost",
                           args |-> [product_name |-> <<"a">>, region |-> Westeurope,
                                     monthly_hours |-> h, type |-> <<"Consumption">>]]]
          /\ mc' = [mc EXCEPT ![frame_slot(c)] =
                        [product_name |-> <<"a">>,
                         region |-> Westeurope,
                         type |-> <<"Consumption">>,
                         monthly_hours |-> int(h),
                         filter_params |-> monthly_cost_filter(<<"a">>, Westeurope,
                                                               <<"Consumption">>)]]
    /\ pc' = [pc EXCEPT ![c] = "mc_page"]
    /\ UNCHANGED <<sn, gp, log, result>>

conc_monthly_cost_page(c) ==
    /\ pc[c] = "mc_page"
    /\ LET f == mc[frame_slot(c)]
       IN  \E response \in Responses(ConcProductItems, ConcItems - ReceivedByAll) :
              /\ conc_requested(c, Request(AZURE_PRICE_API, PyStr(f.filter_params), None),
                                response)
              /\ conc_return(c, Returned(monthly_cost_result(f, response)))
    /\ UNCHANGED <<call, sn, gp, mc>>

InitConcurrent ==
    /\ call = [c \in Calls |-> [tool |-> "none", args |-> <<>>]]
    /\ pc = [c \in Calls |-> "idle"]
    /\ gp = [c \in Calls |-> NoFrame]
    /\ sn = NoFrame
    /\ mc = [c \in Calls |-> NoFrame]
    /\ log = [c \in Calls |-> <<>>]
    /\ result = [c \in Calls |-> NoResult]

NextConcurrent ==
    \/ \E c \in Calls : conc_get_products(c)
    \/ \E c \in Calls : conc_products_first_page(c)
    \/ \E c \in Calls : conc_products_next_page(c)
    \/ \E c \in Calls : conc_get_monthly_cost(c)
    \/ \E c \in Calls : conc_monthly_cost_page(c)

SpecConcurrent == InitConcurrent /\ [][NextConcurrent]_vars

\* the locals of get_products of a call that ran alone and got these pages
AloneProducts(cl, lg) ==
    [products_frame(cl.args.service_family, cl.args.region, cl.args.type,
                    cl.args.service_name, cl.args.product_name_contains, int(cl.args.limit))
        EXCEPT !.all_items = FetchedItems(lg),
               !.page_count = Len(SelectSeq(lg, LAMBDA e : e.response.kind = "ok")),
               !.next_page_link = IF lg[Len(lg)].response.kind = "ok"
                                  THEN lg[Len(lg)].response.NextPageLink
                                  ELSE None]

\* the locals of get_monthly_cost of a call that ran alone
AloneMonthlyCost(cl) ==
    [product_name |-> cl.args.product_name,
     region |-> cl.args.region,
     type |-> cl.args.type,
     monthly_hours |-> int(cl.args.monthly_hours),
     filter_params |-> monthly_cost_filter(cl.args.product_name, cl.args.region, cl.args.type)]

\* a call run alone that has got these responses goes on to another request
AloneGoesOn(cl, lg) ==
    IF lg = <<>> THEN TRUE
    ELSE /\ cl.tool = "get_products"
         /\ lg[Len(lg)].response.kind = "ok"
         /\ Len(lg[1].response.Items) > 0
         /\ more_pages(AloneProducts(cl, lg))

\* what a call run alone returns on these responses
AloneResult(cl, lg) ==
    IF cl.tool = "get_monthly_cost"
    THEN Returned(monthly_cost_result(AloneMonthlyCost(cl), lg[1].response))
    ELSE IF lg[1].response.kind = "error"
    THEN Returned(products_error)
    ELSE IF Len(lg[1].response.Items) = 0
    THEN Returned(products_empty(AloneProducts(cl, lg)))
    ELSE project_products(AloneProducts(cl, lg))

\* call c has ended
ConcDone(c) == pc[c] \in {"returned", "raised"}

(* C18: when two calls run with their upstream requests interleaved in    *)
(* any order, each call issues the requests and returns the result it     *)
(* would if it ran alone and got the same responses: nothing of the other *)
(* call's records, limit, hours or page count shows in it.                *)
C18_ResultAsIfAlone ==
    \A c \in Calls :
        /\ \A k \in 1..(Len(log[c]) - 1) : AloneGoesOn(call[c], SubSeq(log[c], 1, k))
        /\ ConcDone(c) =>
              /\ ~AloneGoesOn(call[c], log[c])
              /\ result[c] = AloneResult(call[c], log[c])
        /\ (call[c].tool # "none" /\ ~ConcDone(c)) => AloneGoesOn(call[c], log[c])

\* two get_products calls of different limits, the only request of the second
\* between the two requests of the first, and each with its own names
C18_Witness ==
    /\ ConcDone(1) /\ ConcDone(2)
    /\ call[1].tool = "get_products" /\ call[2].tool = "get_products"
    /\ call[1].args.limit # call[2].args.limit
    /\ Len(log[1]) = 2 /\ Len(log[2]) = 1
    /\ log[1][1].order < log[2][1].order
    /\ log[2][1].order < log[1][2].order
    /\ result[1].value.product_names = << <<"a">> >>
    /\ result[2].value.product_names = << <<"A", "b">> >>

====
